---- MODULE Spec2Model ----
(***************************************************************************)
(* heictojpeg: the worker pool of processFiles (src/main.go:84-175), the   *)
(* report writer saveLogsToFile (src/main.go:57-82) and the splicing       *)
(* writer writerSkipper / newWriterExif (src/main.go:243-286).             *)
(*                                                                         *)
(* Strings are sequences of one-character strings, so that filepath.Ext,   *)
(* strings.ToLower and strings.TrimSuffix are computed, not assumed.       *)
(* Bytes are integers 0..255.                                              *)
(***************************************************************************)
EXTENDS Integers, Sequences, FiniteSets, TLC

VARIABLES
    \* ---- the batch (inputs of one run) ----
    files,        \* []os.DirEntry handed to processFiles: a sequence of names
    disk,         \* content of each source file, by name
    workerCount,  \* runtime.NumCPU()
    \* ---- processFiles / setupWorkers / worker ----
    fileChan,     \* buffered chan os.DirEntry (capacity len(files))
    fileClosed,   \* close(fileChan) has run
    logChan,      \* buffered chan map[string]string (capacity len(files))
    logClosed,    \* close(logChan) has run
    wg,           \* sync.WaitGroup counter
    mainPc,       \* position of the main goroutine
    sent,         \* number of files the producer loop has submitted
    wpc,          \* position of each worker goroutine
    wfile,        \* the worker's loop variable file
    wentry,       \* the map processFile returned to the worker
    jpegs,        \* the jpegs directory: size of each .jpg, by path stem
    setup,        \* what main has set up so far: "cwd", "jpegdir", "listing", "pool"
    wopen,        \* the files each worker's conversion holds open: "src", "dst"
    \* ---- aggregateLogs / saveLogsToFile ----
    logs,         \* map[string][]string
    totalHEICSize,
    totalJPEGSize,
    totalLogLines,
    visited,      \* keys the range loop of saveLogsToFile has yielded
    logFile,      \* lines written to logs.txt
    \* ---- history (no counterpart in the code) ----
    recvCount,    \* times each entry was received from fileChan
    pushCount,    \* outcomes pushed on logChan for each entry
    convCalls,    \* times convertFile was called for each entry
    \* ---- newWriterExif / writerSkipper ----
    exif,         \* the metadata blob: [present, data]
    enc,          \* all bytes the encoder will write
    fed,          \* how many of them it has written so far
    sink,         \* bytes that reached the underlying io.Writer
    bytesToSkip,  \* writerSkipper.bytesToSkip
    lastN,        \* n returned by the last Write
    xpc,          \* position of the conversion (convertHeicToJpg)
    \* ---- convertHeicToJpg ----
    ran,          \* history: the steps that have run, in order
    result,       \* what convertHeicToJpg returned: "nil" or the failed step
    seekErr,      \* fileInput.Seek returned an error (the code drops it)
    handles,      \* files the conversion holds open: "src", "dst"
    dstOld        \* content of the file already at the output path

poolVars   == <<files, disk, workerCount, fileChan, fileClosed, logChan, logClosed,
                wg, mainPc, sent, wpc, wfile, wentry, jpegs, logs, totalHEICSize,
                totalJPEGSize, totalLogLines, visited, logFile, recvCount,
                pushCount, convCalls, setup, wopen>>
writerVars == <<exif, enc, fed, sink, bytesToSkip, lastN, xpc>>
convVars   == <<ran, result, seekErr, handles, dstOld>>
vars       == <<poolVars, writerVars, convVars>>

----------------------------------------------------------------------------
(* Bounds of the model *)

MaxFiles   == 3   \* longest batch
MaxWorkers == 2   \* largest runtime.NumCPU()
MaxDur     == 2   \* largest time.Since(startTime), in ticks
MaxEncLen  == 4   \* longest encoder output
MaxExifLen == 2   \* longest metadata blob enumerated byte by byte

----------------------------------------------------------------------------
(* Strings *)

Upper == <<"A","B","C","D","E","F","G","H","I","J","K","L","M",
           "N","O","P","Q","R","S","T","U","V","W","X","Y","Z">>
Lower == <<"a","b","c","d","e","f","g","h","i","j","k","l","m",
           "n","o","p","q","r","s","t","u","v","w","x","y","z">>

\* unicode.ToLower on one character (the ASCII letters; names of the model hold
\* no other letter)
LowerChar(c) ==
    IF \E i \in 1..Len(Upper) : Upper[i] = c
    THEN Lower[CHOOSE i \in 1..Len(Upper) : Upper[i] = c]
    ELSE c

\* strings.ToLower
ToLowerId(s) == s
ToLower(s) == [i \in 1..Len(s) |-> LowerChar(s[i])]

\* filepath.Ext: the suffix beginning at the final dot of the final element
RECURSIVE ExtFrom(_, _)
ExtFrom(path, i) ==
    IF i < 1 \/ path[i] = "/" THEN <<>>
    ELSE IF path[i] = "." THEN SubSeq(path, i, Len(path))
    ELSE ExtFrom(path, i - 1)

Ext(path) == ExtFrom(path, Len(path))

HasSuffix(s, suffix) ==
    /\ Len(suffix) <= Len(s)
    /\ SubSeq(s, Len(s) - Len(suffix) + 1, Len(s)) = suffix

\* strings.TrimSuffix
TrimSuffix(s, suffix) ==
    IF HasSuffix(s, suffix) THEN SubSeq(s, 1, Len(s) - Len(suffix)) ELSE s

HeicExt    == <<".", "h", "e", "i", "c">>
GeneralKey == <<"g", "e", "n", "e", "r", "a", "l">>

----------------------------------------------------------------------------
(* The directory: names in the order os.ReadDir returns them (sorted), and  *)
(* the contents each may have.                                              *)

NamePool == <<
    <<"a", ".", "H", "E", "I", "C">>,
    <<"a", ".", "h", "e", "i", "c">>,
    <<"b", ".", "H", "E", "I", "C">>,
    <<"c", ".", "t", "x", "t">>,
    <<"d", ".", "h", "e", "i", "c", ".", "b", "a", "k">>,
    <<"h", "e", "i", "c">> >>

\* "valid": a HEIC image; "mock": the 12 bytes "mock content" of the test;
\* "text": anything else
PoolContents == << {"valid", "mock"}, {"valid", "mock"}, {"valid", "mock"}, {"text"},
                   {"valid"}, {"text"} >>

PoolIndex(name) == CHOOSE i \in 1..Len(NamePool) : NamePool[i] = name

\* sorted batches: the sub-sequences of NamePool, as strictly increasing index lists
RECURSIVE Increasing(_)
Increasing(s) ==
    IF Len(s) < 2 THEN TRUE
    ELSE s[1] < s[2] /\ Increasing(Tail(s))

Batches ==
    { [i \in 1..Len(ix) |-> NamePool[ix[i]]] :
        ix \in { s \in UNION { [1..n -> 1..Len(NamePool)] : n \in 0..MaxFiles } :
                    Increasing(s) } }

Range(s) == { s[i] : i \in 1..Len(s) }

SrcSize(content) ==
    CASE content = "valid" -> 2048
      [] content = "mock"  -> 12
      [] OTHER             -> 5

JpegSizeOfValid == 1500

----------------------------------------------------------------------------
(* Pure functions of main.go *)

EmptyMap == [k \in {} |-> <<>>]

MapPut(m, k, v) == [x \in (DOMAIN m) \cup {k} |-> IF x = k THEN v ELSE m[x]]

\* convertHeicToJpg seen from the pool: nil, or the error of the first failing step
convertFileNotReentrant(content) ==
    IF content = "valid" /\ workerCount = 1
    THEN [ok |-> TRUE,  err |-> ""]
    ELSE [ok |-> FALSE, err |-> "no exif"]
convertFile(content) ==
    CASE content = "valid" -> [ok |-> TRUE,  err |-> ""]
      [] content = "mock"  -> [ok |-> FALSE, err |-> "no exif"]
      [] OTHER             -> [ok |-> FALSE, err |-> "not heif"]

\* the test of processFile
IsSourceExt(name) == ToLower(Ext(name)) = HeicExt

\* processFile: the map it returns
processFileNoFilter(name, content) ==
    IF convertFile(content).ok
    THEN [k \in {name} |-> <<"converted successfully">>]
    ELSE [k \in {name} |-> <<"error details: ", convertFile(content).err>>]
processFile(name, content) ==
    IF IsSourceExt(name)
    THEN IF convertFile(content).ok
         THEN [k \in {name} |-> <<"converted successfully">>]
         ELSE [k \in {name} |-> <<"error details: ", convertFile(content).err>>]
    ELSE EmptyMap

\* humanReadableFileSize: <<digits, unit>>; the fraction is in tenths
RECURSIVE SizeExp(_)
SizeExp(n) == IF n >= 1024 THEN 1 + SizeExp(n \div 1024) ELSE 0

RECURSIVE Pow1024(_)
Pow1024(e) == IF e = 0 THEN 1 ELSE 1024 * Pow1024(e - 1)

humanReadableFileSize(bytes) ==
    IF bytes < 1024 THEN <<bytes, "B">>
    ELSE LET exp == SizeExp(bytes \div 1024)
             div == Pow1024(exp + 1)
             tenths == (bytes * 10 + div \div 2) \div div
         IN  <<tenths \div 10, ".", tenths % 10,
               SubSeq(<<"K","M","G","T","P","E">>, exp + 1, exp + 1)[1], "B">>

\* getJPEGFilePath, relative to jpegDir and without the ".jpg"
JpegStem(name) == TrimSuffix(name, Ext(name))

\* getFileSize: 0 when os.Stat fails
getFileSize(fs, path) == IF path \in DOMAIN fs THEN fs[path] ELSE 0

\* the line aggregateLogs appends for key k:
\* "<k> <heicSize> > Converted > jpegs/<stem>.jpg <jpgSize>"
LogLine(k, heicBytes, jpgBytes) ==
    [name |-> k, heicSize |-> humanReadableFileSize(heicBytes),
     text |-> <<" > Converted > jpegs/">>, stem |-> JpegStem(k), ext |-> ".jpg",
     jpgSize |-> humanReadableFileSize(jpgBytes)]

\* the five lines of the general block, in the order they are appended
GeneralLogs(n, dur, avg, heicTotal, jpegTotal) ==
    << [general |-> "\n%v Files", count |-> n],
       [general |-> "Total Time Taken==%v", duration |-> dur],
       [general |-> "Average Time Per File==%v", duration |-> avg],
       [general |-> "Total HEIC File Size==%s", size |-> humanReadableFileSize(heicTotal)],
       [general |-> "Total JPEG Folder Size==%s", size |-> humanReadableFileSize(jpegTotal)] >>

----------------------------------------------------------------------------
(* The worker pool: processFiles, setupWorkers, worker *)

Workers == 1..workerCount

NoFile == <<>>

Names == Range(files)

ZeroCount == [n \in Range(NamePool) |-> 0]

WriterIdle ==
    /\ exif = [present |-> FALSE, data |-> <<>>]
    /\ enc = <<>>
    /\ fed = 0
    /\ sink = <<>>
    /\ bytesToSkip = 0
    /\ lastN = 0
    /\ xpc = "idle"

\* the state when main starts: the directory holds files, nothing is set up
PoolInit ==
    /\ files \in Batches
    /\ disk \in { d \in [Range(NamePool) -> {"valid", "mock", "text"}] :
                    \A n \in Range(NamePool) :
                        IF n \in Range(files) THEN d[n] \in PoolContents[PoolIndex(n)]
                        ELSE d[n] = "text" }
    /\ workerCount \in 1..MaxWorkers
    /\ fileChan = <<>>
    /\ fileClosed = FALSE
    /\ logChan = <<>>
    /\ logClosed = FALSE
    /\ wg = 0
    /\ mainPc = "getwd"
    /\ sent = 0
    /\ wpc = [w \in 1..MaxWorkers |-> "none"]
    /\ wfile = [w \in 1..MaxWorkers |-> NoFile]
    /\ wentry = [w \in 1..MaxWorkers |-> EmptyMap]
    /\ jpegs = EmptyMap
    /\ logs = EmptyMap
    /\ totalHEICSize = 0
    /\ totalJPEGSize = 0
    /\ totalLogLines = -1
    /\ visited = {}
    /\ logFile = <<>>
    /\ recvCount = ZeroCount
    /\ pushCount = ZeroCount
    /\ convCalls = ZeroCount
    /\ setup = {}
    /\ wopen = [w \in 1..MaxWorkers |-> {}]

ConvIdle ==
    /\ ran = <<>>
    /\ result = "pending"
    /\ seekErr = FALSE
    /\ handles = {}
    /\ dstOld = <<>>

Init == PoolInit /\ WriterIdle /\ ConvIdle

\* log.Fatalf after a failed setup call (main.go:25, 31, 48): the process exits
OnSetupError(fatalPc, nextPc) == fatalPc

\* one setup call of main: it succeeds and main goes on, or it fails
SetupCall(at, fact, nextPc, fatalPc) ==
    /\ mainPc = at
    /\ \E ok \in BOOLEAN :
        IF ok
        THEN /\ setup' = setup \cup {fact}
             /\ mainPc' = nextPc
        ELSE /\ setup' = setup
             /\ mainPc' = OnSetupError(fatalPc, nextPc)
    /\ UNCHANGED <<files, disk, workerCount, fileChan, fileClosed, logChan, logClosed,
                   wg, sent, wpc, wfile, wentry, jpegs, logs, totalHEICSize,
                   totalJPEGSize, totalLogLines, visited, logFile, recvCount,
                   pushCount, convCalls, wopen>>
    /\ UNCHANGED writerVars
    /\ UNCHANGED convVars

\* main.go:23-26: getCurrentDirectory
GetCurrentDirectory == SetupCall("getwd", "cwd", "mkdir", "fatal_getwd")

\* main.go:28, 45-51: ensureJPEGDirectoryExists
EnsureJPEGDirectoryExists == SetupCall("mkdir", "jpegdir", "readdir", "fatal_mkdir")

\* main.go:29-32: getFilesInDirectory
GetFilesInDirectory == SetupCall("readdir", "listing", "process", "fatal_readdir")

\* main.go:34, processFiles:84-89 and setupWorkers: both channels made with
\* capacity len(files), every worker started and counted in wg, the goroutine
\* that waits for them started
StartPool ==
    /\ mainPc = "process"
    /\ wg' = workerCount
    /\ wpc' = [w \in 1..MaxWorkers |-> IF w <= workerCount THEN "recv" ELSE "none"]
    /\ setup' = setup \cup {"pool"}
    /\ mainPc' = "submit"
    /\ UNCHANGED <<files, disk, workerCount, fileChan, fileClosed, logChan, logClosed,
                   sent, wfile, wentry, jpegs, logs, totalHEICSize,
                   totalJPEGSize, totalLogLines, visited, logFile, recvCount,
                   pushCount, convCalls, wopen>>
    /\ UNCHANGED writerVars
    /\ UNCHANGED convVars

\* capacity of both channels (main.go:102-103)
ChanCapOneLess == Len(files) - 1
ChanCap == Len(files)

\* what a receive leaves in the channel
ChanAfterRecvKeep(q) == q
ChanAfterRecv(q) == Tail(q)

\* processFiles:91-93, one iteration: fileChan <- file
Submit ==
    /\ mainPc = "submit"
    /\ sent < Len(files)
    /\ Len(fileChan) < ChanCap
    /\ fileChan' = Append(fileChan, files[sent + 1])
    /\ sent' = sent + 1
    /\ UNCHANGED <<files, disk, workerCount, fileClosed, logChan, logClosed, wg, mainPc,
                   wpc, wfile, wentry, jpegs, logs, totalHEICSize, totalJPEGSize,
                   totalLogLines, visited, logFile, recvCount, pushCount, convCalls>>
    /\ UNCHANGED <<setup, wopen>>
    /\ UNCHANGED writerVars
    /\ UNCHANGED convVars

\* processFiles:94: close(fileChan), then the call of aggregateLogs
CloseFileChan ==
    /\ mainPc = "submit"
    /\ sent = Len(files)
    /\ fileClosed' = TRUE
    /\ mainPc' = "aggregate"
    /\ UNCHANGED <<files, disk, workerCount, fileChan, logChan, logClosed, wg, sent,
                   wpc, wfile, wentry, jpegs, logs, totalHEICSize, totalJPEGSize,
                   totalLogLines, visited, logFile, recvCount, pushCount, convCalls>>
    /\ UNCHANGED <<setup, wopen>>
    /\ UNCHANGED writerVars
    /\ UNCHANGED convVars

\* worker:122: for file := range fileChan, an entry is there
WorkerRecv(w) ==
    /\ wpc[w] = "recv"
    /\ fileChan # <<>>
    /\ wfile' = [wfile EXCEPT ![w] = Head(fileChan)]
    /\ fileChan' = ChanAfterRecv(fileChan)
    /\ recvCount' = [recvCount EXCEPT ![Head(fileChan)] = @ + 1]
    /\ wpc' = [wpc EXCEPT ![w] = "process"]
    /\ UNCHANGED <<files, disk, workerCount, fileClosed, logChan, logClosed, wg, mainPc,
                   sent, wentry, jpegs, logs, totalHEICSize, totalJPEGSize,
                   totalLogLines, visited, logFile, pushCount, convCalls>>
    /\ UNCHANGED <<setup, wopen>>
    /\ UNCHANGED writerVars
    /\ UNCHANGED convVars

\* worker:122 and 121: the channel is closed and drained, the loop ends, wg.Done()
WorkerExit(w) ==
    /\ wpc[w] = "recv"
    /\ fileChan = <<>>
    /\ fileClosed
    /\ wpc' = [wpc EXCEPT ![w] = "done"]
    /\ wg' = wg - 1
    /\ UNCHANGED <<files, disk, workerCount, fileChan, fileClosed, logChan, logClosed,
                   mainPc, sent, wfile, wentry, jpegs, logs, totalHEICSize,
                   totalJPEGSize, totalLogLines, visited, logFile, recvCount,
                   pushCount, convCalls>>
    /\ UNCHANGED <<setup, wopen>>
    /\ UNCHANGED writerVars
    /\ UNCHANGED convVars

\* the size of the .jpg once convertHeicToJpg has opened it: OpenFile with
\* O_RDWR|O_CREATE makes an empty file or keeps the one that is there
DestOpened(fs, stem) == IF stem \in DOMAIN fs THEN fs ELSE MapPut(fs, stem, 0)

\* worker:123, the call processFile(file, ...) up to the start of the
\* conversion: an entry of another extension is passed by with an empty map;
\* for a matching one convertHeicToJpg opens the source and, if it can be
\* decoded, the destination
WorkerProcess(w) ==
    /\ wpc[w] = "process"
    /\ IF IsSourceExt(wfile[w])
       THEN /\ convCalls' = [convCalls EXCEPT ![wfile[w]] = @ + 1]
            /\ IF convertFile(disk[wfile[w]]).ok
               THEN /\ wopen' = [wopen EXCEPT ![w] = {"src", "dst"}]
                    /\ jpegs' = DestOpened(jpegs, JpegStem(wfile[w]))
               ELSE /\ wopen' = [wopen EXCEPT ![w] = {"src"}]
                    /\ jpegs' = jpegs
            /\ wpc' = [wpc EXCEPT ![w] = "convert"]
            /\ UNCHANGED wentry
       ELSE /\ wentry' = [wentry EXCEPT ![w] = processFile(wfile[w], disk[wfile[w]])]
            /\ wpc' = [wpc EXCEPT ![w] = "send"]
            /\ UNCHANGED <<convCalls, jpegs, wopen>>
    /\ UNCHANGED <<files, disk, workerCount, fileChan, fileClosed, logChan, logClosed,
                   wg, mainPc, sent, wfile, logs, totalHEICSize, totalJPEGSize,
                   totalLogLines, visited, logFile, recvCount, pushCount, setup>>
    /\ UNCHANGED writerVars
    /\ UNCHANGED convVars

\* the files a conversion still holds when convertHeicToJpg has returned: none,
\* both are closed by the deferred Close calls (main.go:214, 233)
OpenAfterReturn(open) == {}

\* where a worker goes when processFile has returned, whatever the conversion gave
AfterProcessFileStopOnError(res) == IF res.ok THEN "send" ELSE "done"
AfterProcessFile(res) == "send"

\* worker:123, the rest of processFile: the conversion ends (a successful one
\* has written its .jpg), its files are closed and the map is filled
WorkerConverted(w) ==
    /\ wpc[w] = "convert"
    /\ jpegs' = IF convertFile(disk[wfile[w]]).ok
                THEN MapPut(jpegs, JpegStem(wfile[w]), JpegSizeOfValid)
                ELSE jpegs
    /\ wopen' = [wopen EXCEPT ![w] = OpenAfterReturn(wopen[w])]
    /\ wentry' = [wentry EXCEPT ![w] = processFile(wfile[w], disk[wfile[w]])]
    /\ wpc' = [wpc EXCEPT ![w] = AfterProcessFile(convertFile(disk[wfile[w]]))]
    /\ UNCHANGED <<files, disk, workerCount, fileChan, fileClosed, logChan, logClosed,
                   wg, mainPc, sent, wfile, logs, totalHEICSize, totalJPEGSize,
                   totalLogLines, visited, logFile, recvCount, pushCount, convCalls,
                   setup>>
    /\ UNCHANGED writerVars
    /\ UNCHANGED convVars

\* what the worker still holds of the map once it has sent it: nothing, the map
\* was made by this call of processFile (main.go:128) and was never stored
EntryAfterSendKept(e) == e
EntryAfterSend(e) == EmptyMap

\* worker:123, the send: logChan <- (the map)
WorkerSend(w) ==
    /\ wpc[w] = "send"
    /\ Len(logChan) < ChanCap \/ logClosed
    /\ IF logClosed
       THEN \* send on closed channel: the goroutine panics
            /\ wpc' = [wpc EXCEPT ![w] = "panic"]
            /\ UNCHANGED <<logChan, pushCount>>
       ELSE /\ logChan' = Append(logChan, wentry[w])
            /\ pushCount' = [pushCount EXCEPT ![wfile[w]] = @ + 1]
            /\ wpc' = [wpc EXCEPT ![w] = "recv"]
    /\ wfile' = [wfile EXCEPT ![w] = NoFile]
    /\ wentry' = [wentry EXCEPT ![w] = EntryAfterSend(wentry[w])]
    /\ UNCHANGED <<files, disk, workerCount, fileChan, fileClosed, logClosed, wg, mainPc,
                   sent, jpegs, logs, totalHEICSize, totalJPEGSize, totalLogLines,
                   visited, logFile, recvCount, convCalls, setup, wopen>>
    /\ UNCHANGED writerVars
    /\ UNCHANGED convVars

\* wg.Wait() returns (main.go:113)
WaitReturnsAtOnce == TRUE
WaitReturns == wg = 0

\* setupWorkers:112-115: wg.Wait() returns, close(logChan)
CloseLogChan ==
    /\ "pool" \in setup
    /\ WaitReturns
    /\ ~logClosed
    /\ logClosed' = TRUE
    /\ UNCHANGED <<files, disk, workerCount, fileChan, fileClosed, logChan, wg, mainPc,
                   sent, wpc, wfile, wentry, jpegs, logs, totalHEICSize, totalJPEGSize,
                   totalLogLines, visited, logFile, recvCount, pushCount, convCalls>>
    /\ UNCHANGED <<setup, wopen>>
    /\ UNCHANGED writerVars
    /\ UNCHANGED convVars

----------------------------------------------------------------------------
(* aggregateLogs *)

RECURSIVE SumOver(_, _)
SumOver(S, f) ==
    IF S = {} THEN 0
    ELSE LET x == CHOOSE y \in S : TRUE
         IN  f[x] + SumOver(S \ {x}, f)

\* os.Stat sizes of the source files, by name
SrcFs(d) == [n \in DOMAIN d |-> SrcSize(d[n])]

\* main.go:147-161 for one logItem: one line appended to logs[k] for each key k
\* of the item. The line is built from k and the two sizes; item[k] is not read.
AggLogs(lg, item, d, fs) ==
    [k \in (DOMAIN lg) \cup (DOMAIN item) |->
        IF k \in DOMAIN item
        THEN Append(IF k \in DOMAIN lg THEN lg[k] ELSE <<>>,
                    LogLine(k, getFileSize(SrcFs(d), k), getFileSize(fs, JpegStem(k))))
        ELSE lg[k]]

\* aggregateLogs:146-162, one iteration of for logItem := range logChan
AggRecv ==
    /\ mainPc = "aggregate"
    /\ logChan # <<>>
    /\ LET item == Head(logChan)
       IN  /\ logs' = AggLogs(logs, item, disk, jpegs)
           /\ totalHEICSize' = totalHEICSize +
                 SumOver(DOMAIN item, [k \in DOMAIN item |-> getFileSize(SrcFs(disk), k)])
           /\ totalJPEGSize' = totalJPEGSize +
                 SumOver(DOMAIN item,
                         [k \in DOMAIN item |-> getFileSize(jpegs, JpegStem(k))])
    /\ logChan' = ChanAfterRecv(logChan)
    /\ UNCHANGED <<files, disk, workerCount, fileChan, fileClosed, logClosed, wg, mainPc,
                   sent, wpc, wfile, wentry, jpegs, totalLogLines, visited, logFile,
                   recvCount, pushCount, convCalls>>
    /\ UNCHANGED <<setup, wopen>>
    /\ UNCHANGED writerVars
    /\ UNCHANGED convVars

\* len(logs) at main.go:166
CountLogsPlusOne(lg) == Cardinality(DOMAIN lg) + 1
CountLogs(lg) == Cardinality(DOMAIN lg)

\* aggregateLogs:164-174: the range loop ended (logChan closed and drained); the
\* general block. totalDuration/time.Duration(totalLogLines) is an int64
\* division: with totalLogLines = 0 the Go runtime panics (integer divide by
\* zero) and line 174 is never reached.
AggFinish ==
    /\ mainPc = "aggregate"
    /\ logChan = <<>>
    /\ logClosed
    /\ totalLogLines' = CountLogs(logs)
    /\ \E totalDuration \in 1..MaxDur :
        IF totalLogLines' = 0
        THEN /\ mainPc' = "panic"
             /\ UNCHANGED logs
        ELSE /\ logs' = MapPut(logs, GeneralKey,
                            GeneralLogs(totalLogLines', totalDuration,
                                        totalDuration \div totalLogLines',
                                        totalHEICSize, totalJPEGSize))
             /\ mainPc' = "save"
    /\ UNCHANGED <<files, disk, workerCount, fileChan, fileClosed, logChan, logClosed,
                   wg, sent, wpc, wfile, wentry, jpegs, totalHEICSize, totalJPEGSize,
                   visited, logFile, recvCount, pushCount, convCalls>>
    /\ UNCHANGED <<setup, wopen>>
    /\ UNCHANGED writerVars
    /\ UNCHANGED convVars

----------------------------------------------------------------------------
(* saveLogsToFile *)

\* main.go:67-74: what the first loop writes for key k
RangeLinesNoSkip(lg, k) == lg[k]
RangeLines(lg, k) == IF k = GeneralKey THEN <<>> ELSE lg[k]

\* main.go:58-63: os.Create(logFilePath); log.Fatalf when it fails
CreateLogFile ==
    /\ mainPc = "save"
    /\ \E ok \in BOOLEAN : mainPc' = IF ok THEN "write" ELSE "fatal_logfile"
    /\ UNCHANGED <<files, disk, workerCount, fileChan, fileClosed, logChan, logClosed,
                   wg, sent, wpc, wfile, wentry, jpegs, logs, totalHEICSize,
                   totalJPEGSize, totalLogLines, visited, logFile, recvCount, pushCount,
                   convCalls, setup, wopen>>
    /\ UNCHANGED writerVars
    /\ UNCHANGED convVars

\* one iteration of for key, logMessages := range logs; the order in which a
\* Go map yields its keys is unspecified, so any key not yet yielded may be next
SaveRange ==
    /\ mainPc = "write"
    /\ \E k \in (DOMAIN logs) \ visited :
        /\ visited' = visited \cup {k}
        /\ logFile' = logFile \o RangeLines(logs, k)
    /\ UNCHANGED <<files, disk, workerCount, fileChan, fileClosed, logChan, logClosed,
                   wg, mainPc, sent, wpc, wfile, wentry, jpegs, logs, totalHEICSize,
                   totalJPEGSize, totalLogLines, recvCount, pushCount, convCalls>>
    /\ UNCHANGED <<setup, wopen>>
    /\ UNCHANGED writerVars
    /\ UNCHANGED convVars

\* main.go:76-81: the loop is over; the general lines, then the return
SaveGeneral ==
    /\ mainPc = "write"
    /\ visited = DOMAIN logs
    /\ logFile' = IF GeneralKey \in DOMAIN logs
                  THEN logFile \o logs[GeneralKey]
                  ELSE logFile
    /\ mainPc' = "exit"
    /\ UNCHANGED <<files, disk, workerCount, fileChan, fileClosed, logChan, logClosed,
                   wg, sent, wpc, wfile, wentry, jpegs, logs, totalHEICSize,
                   totalJPEGSize, totalLogLines, visited, recvCount, pushCount,
                   convCalls>>
    /\ UNCHANGED <<setup, wopen>>
    /\ UNCHANGED writerVars
    /\ UNCHANGED convVars

----------------------------------------------------------------------------
(* The run of main: main.go:20-38 *)

Next ==
    \/ GetCurrentDirectory
    \/ EnsureJPEGDirectoryExists
    \/ GetFilesInDirectory
    \/ StartPool
    \/ Submit
    \/ CloseFileChan
    \/ \E w \in Workers : WorkerRecv(w)
    \/ \E w \in Workers : WorkerProcess(w)
    \/ \E w \in Workers : WorkerConverted(w)
    \/ \E w \in Workers : WorkerSend(w)
    \/ \E w \in Workers : WorkerExit(w)
    \/ CloseLogChan
    \/ AggRecv
    \/ AggFinish
    \/ CreateLogFile
    \/ SaveRange
    \/ SaveGeneral

Spec == Init /\ [][Next]_vars

\* the Go scheduler never leaves every runnable goroutine waiting, and every
\* conversion returns: a step is taken whenever one is possible
FairSpec == Spec /\ WF_vars(Next)

----------------------------------------------------------------------------
(* newWriterExif and writerSkipper.Write *)

Byte(x) == x % 256          \* uint8(x)

SOI == <<255, 216>>         \* []byte{0xff, 0xd8}
APP1 == 225                 \* app1Marker := 0xe1

\* main.go:274
MarkerLenPayloadOnly(data) == Len(data)
MarkerLen(data) == 2 + Len(data)

\* main.go:275: {0xff, uint8(app1Marker), uint8(markerlen >> 8), uint8(markerlen & 0xff)}
Marker(data) ==
    <<255, Byte(APP1), Byte(MarkerLen(data) \div 256), Byte(MarkerLen(data) % 256)>>

\* main.go:272-283: what follows the start marker
ExifSegmentAlways(x) == Marker(x.data) \o x.data
ExifSegment(x) == IF x.present THEN Marker(x.data) \o x.data ELSE <<>>

\* writerSkipper.Write on (sink, bytesToSkip): the new sink, the new counter and
\* the n it returns. The underlying writer accepts every byte it is given (its
\* error return is not modelled), so w.w.Write(d) returns len(d).
WriteNoCarry(snk, skip, data) ==
    IF skip <= 0
    THEN [sink |-> snk \o data, skip |-> skip, n |-> Len(data)]
    ELSE IF Len(data) < skip
    THEN [sink |-> snk, skip |-> skip, n |-> Len(data)]
    ELSE [sink |-> snk \o SubSeq(data, skip + 1, Len(data)), skip |-> 0,
          n |-> (Len(data) - skip) + skip]
WriteReportsForwarded(snk, skip, data) ==
    IF skip <= 0
    THEN [sink |-> snk \o data, skip |-> skip, n |-> Len(data)]
    ELSE IF Len(data) < skip
    THEN [sink |-> snk, skip |-> skip - Len(data), n |-> Len(data)]
    ELSE [sink |-> snk \o SubSeq(data, skip + 1, Len(data)), skip |-> 0,
          n |-> Len(data) - skip]
Write(snk, skip, data) ==
    IF skip <= 0
    THEN [sink |-> snk \o data, skip |-> skip, n |-> Len(data)]
    ELSE IF Len(data) < skip
    THEN [sink |-> snk, skip |-> skip - Len(data), n |-> Len(data)]
    ELSE [sink |-> snk \o SubSeq(data, skip + 1, Len(data)), skip |-> 0,
          n |-> (Len(data) - skip) + skip]

\* the pool is not running
PoolIdle ==
    /\ files = <<>>
    /\ disk = [n \in Range(NamePool) |-> "text"]
    /\ workerCount = 1
    /\ fileChan = <<>>
    /\ fileClosed = FALSE
    /\ logChan = <<>>
    /\ logClosed = FALSE
    /\ wg = 0
    /\ mainPc = "idle"
    /\ sent = 0
    /\ wpc = [w \in 1..MaxWorkers |-> "none"]
    /\ wfile = [w \in 1..MaxWorkers |-> NoFile]
    /\ wentry = [w \in 1..MaxWorkers |-> EmptyMap]
    /\ jpegs = EmptyMap
    /\ logs = EmptyMap
    /\ totalHEICSize = 0
    /\ totalJPEGSize = 0
    /\ totalLogLines = -1
    /\ visited = {}
    /\ logFile = <<>>
    /\ recvCount = ZeroCount
    /\ pushCount = ZeroCount
    /\ convCalls = ZeroCount
    /\ setup = {}
    /\ wopen = [w \in 1..MaxWorkers |-> {}]

\* byte values the enumerated inputs are made of
EncBytes  == {255, 216, 7}
ExifBytes == {225, 0}

SeqsUpTo(S, n) == UNION { [1..m -> S] : m \in 0..n }

\* the largest payload whose segment length fits the two length bytes, and the
\* first one that does not
FieldLimit == 256 * 256
LongLens == {FieldLimit - 3, FieldLimit - 2, FieldLimit + 1}

\* the inputs of one conversion's writing part: the blob ExtractExif returned
\* (nil, empty, short, or as long as the length field can hold and longer) and
\* the bytes the encoder writes
WriterInit ==
    /\ PoolIdle
    /\ \/ /\ exif \in { [present |-> FALSE, data |-> <<>>] } \cup
                      { [present |-> TRUE, data |-> d] : d \in SeqsUpTo(ExifBytes, MaxExifLen) }
          /\ enc \in SeqsUpTo(EncBytes, MaxEncLen)
       \/ /\ exif \in { [present |-> TRUE, data |-> [i \in 1..n |-> 0]] : n \in LongLens }
          /\ enc = <<255, 216, 7>>
    /\ fed = 0
    /\ sink = <<>>
    /\ bytesToSkip = 0
    /\ lastN = 0
    /\ xpc = "new"
    /\ ran = <<>>
    /\ result = "pending"
    /\ seekErr = FALSE
    /\ handles = {"src", "dst"}
    /\ dstOld = <<>>

\* the steps run so far, with step added when it starts
RanWith(step) == IF step \in Range(ran) THEN ran ELSE Append(ran, step)

\* newWriterExif (called at main.go:235); the sink accepts every byte
NewWriterExif ==
    /\ xpc = "new"
    /\ bytesToSkip' = 2
    /\ sink' = (sink \o SOI) \o ExifSegment(exif)
    /\ xpc' = "encode"
    /\ ran' = RanWith("writer")
    /\ UNCHANGED <<exif, enc, fed, lastN>>
    /\ UNCHANGED <<result, seekErr, handles, dstOld>>
    /\ UNCHANGED poolVars

\* jpeg.Encode (main.go:240) makes its next Write call, with the next k bytes
\* of its output; k = 0 is an empty write
EncoderWrite ==
    /\ xpc = "encode"
    /\ \E k \in 0..(Len(enc) - fed) :
        LET r == Write(sink, bytesToSkip, SubSeq(enc, fed + 1, fed + k))
        IN  /\ sink' = r.sink
            /\ bytesToSkip' = r.skip
            /\ lastN' = r.n
            /\ fed' = fed + k
    /\ ran' = RanWith("encode")
    /\ UNCHANGED <<exif, enc, xpc>>
    /\ UNCHANGED <<result, seekErr, handles, dstOld>>
    /\ UNCHANGED poolVars

\* jpeg.Encode returns
EncoderDone ==
    /\ xpc = "encode"
    /\ fed = Len(enc)
    /\ xpc' = "done"
    /\ ran' = RanWith("encode")
    /\ UNCHANGED <<exif, enc, fed, sink, bytesToSkip, lastN>>
    /\ UNCHANGED <<result, seekErr, handles, dstOld>>
    /\ UNCHANGED poolVars

WriterNext ==
    \/ NewWriterExif
    \/ EncoderWrite
    \/ EncoderDone

WriterSpec == WriterInit /\ [][WriterNext]_vars

----------------------------------------------------------------------------
(* convertHeicToJpg, step by step *)

MaxOldLen == 8   \* longest file already at the output path

\* what jpeg.Encode writes: a stream that begins with its own start marker
EncStreams == { SOI \o body : body \in SeqsUpTo(EncBytes, MaxEncLen - 2) }

\* convertHeicToJpg is called: nothing is open, the output path may hold a file
ConvInit ==
    /\ PoolIdle
    /\ exif = [present |-> FALSE, data |-> <<>>]
    /\ enc = <<>>
    /\ fed = 0
    /\ sink = <<>>
    /\ bytesToSkip = 0
    /\ lastN = 0
    /\ xpc = "open"
    /\ ran = <<>>
    /\ result = "pending"
    /\ seekErr = FALSE
    /\ handles = {}
    /\ dstOld \in { [i \in 1..n |-> 9] : n \in {0, 1, MaxOldLen} }

\* return err: the deferred Close calls run, the error goes to the caller
ReturnErr(step) ==
    /\ result' = step
    /\ handles' = {}
    /\ xpc' = "returned"

\* main.go:210-214: os.Open(input)
OpenSource ==
    /\ xpc = "open"
    /\ ran' = RanWith("open")
    /\ \E ok \in BOOLEAN :
        IF ok
        THEN /\ handles' = handles \cup {"src"}
             /\ xpc' = "exif"
             /\ UNCHANGED result
        ELSE ReturnErr("open")
    /\ UNCHANGED <<exif, enc, fed, sink, bytesToSkip, lastN, seekErr, dstOld>>
    /\ UNCHANGED poolVars

\* main.go:216-219: goheif.ExtractExif(fileInput): an error, or the blob (nil
\* when the file holds none)
ExtractExif ==
    /\ xpc = "exif"
    /\ ran' = RanWith("exif")
    /\ \/ /\ ReturnErr("exif")
          /\ UNCHANGED exif
       \/ /\ exif' \in { [present |-> FALSE, data |-> <<>>] } \cup
                       { [present |-> TRUE, data |-> d] :
                            d \in SeqsUpTo(ExifBytes, MaxExifLen) }
          /\ xpc' = "seek"
          /\ UNCHANGED <<result, handles>>
    /\ UNCHANGED <<enc, fed, sink, bytesToSkip, lastN, seekErr, dstOld>>
    /\ UNCHANGED poolVars

\* main.go:222: fileInput.Seek(0, 0); both return values are dropped, so the
\* function goes on to Decode whether or not the stream was repositioned
SeekStart ==
    /\ xpc = "seek"
    /\ ran' = RanWith("seek")
    /\ \E ok \in BOOLEAN : seekErr' = ~ok
    /\ xpc' = "decode"
    /\ UNCHANGED <<exif, enc, fed, sink, bytesToSkip, lastN, result, handles, dstOld>>
    /\ UNCHANGED poolVars

\* main.go:224-227: goheif.Decode(fileInput); the image fixes what the encoder
\* will write
Decode ==
    /\ xpc = "decode"
    /\ ran' = RanWith("decode")
    /\ \/ /\ ReturnErr("decode")
          /\ UNCHANGED enc
       \/ /\ enc' \in EncStreams
          /\ xpc' = "create"
          /\ UNCHANGED <<result, handles>>
    /\ UNCHANGED <<exif, fed, sink, bytesToSkip, lastN, seekErr, dstOld>>
    /\ UNCHANGED poolVars

\* main.go:229-233: os.OpenFile(output, os.O_RDWR|os.O_CREATE, 0644)
CreateDest ==
    /\ xpc = "create"
    /\ ran' = RanWith("create")
    /\ \E ok \in BOOLEAN :
        IF ok
        THEN /\ handles' = handles \cup {"dst"}
             /\ xpc' = "new"
             /\ UNCHANGED result
        ELSE ReturnErr("create")
    /\ UNCHANGED <<exif, enc, fed, sink, bytesToSkip, lastN, seekErr, dstOld>>
    /\ UNCHANGED poolVars

\* main.go:235-238: newWriterExif fails (its first Write on the file fails)
NewWriterFail ==
    /\ xpc = "new"
    /\ ran' = RanWith("writer")
    /\ ReturnErr("writer")
    /\ UNCHANGED <<exif, enc, fed, sink, bytesToSkip, lastN, seekErr, dstOld>>
    /\ UNCHANGED poolVars

\* main.go:240: jpeg.Encode returns an error
EncodeFail ==
    /\ xpc = "encode"
    /\ ran' = RanWith("encode")
    /\ ReturnErr("encode")
    /\ UNCHANGED <<exif, enc, fed, sink, bytesToSkip, lastN, seekErr, dstOld>>
    /\ UNCHANGED poolVars

\* main.go:240: return jpeg.Encode(...) with nil; the deferred Close calls run
ConvReturn ==
    /\ xpc = "done"
    /\ result' = "nil"
    /\ handles' = {}
    /\ xpc' = "returned"
    /\ UNCHANGED <<exif, enc, fed, sink, bytesToSkip, lastN, ran, seekErr, dstOld>>
    /\ UNCHANGED poolVars

\* the file a process gets from os.OpenFile(path, O_RDWR|O_CREATE): the bytes
\* already at the path stay, the offset is 0
OpenFile(old) == old

\* a file after the bytes written were written from offset 0 on
Overwrite(file, written) ==
    written \o SubSeq(file, Len(written) + 1, Len(file))

\* the content of the output file
DestFile == Overwrite(OpenFile(dstOld), sink)

ConvNext ==
    \/ OpenSource
    \/ ExtractExif
    \/ SeekStart
    \/ Decode
    \/ CreateDest
    \/ NewWriterExif
    \/ NewWriterFail
    \/ EncoderWrite
    \/ EncoderDone
    \/ EncodeFail
    \/ ConvReturn

ConvSpec == ConvInit /\ [][ConvNext]_vars

----------------------------------------------------------------------------
(* Properties of the pool and of the report: checked under Spec *)

\* a name whose extension is ".heic" in any mix of cases: its last five
\* characters are a dot and the letters h, e, i, c, each in either case
MatchesHeic(name) ==
    /\ Len(name) >= 5
    /\ LET t == SubSeq(name, Len(name) - 4, Len(name))
       IN  /\ t[1] = "."
           /\ t[2] \in {"h", "H"}
           /\ t[3] \in {"e", "E"}
           /\ t[4] \in {"i", "I"}
           /\ t[5] \in {"c", "C"}

Matching == { n \in Names : MatchesHeic(n) }

Submitted == { files[i] : i \in 1..sent }

PoolStarted == "pool" \in setup

WorkersFinished == PoolStarted /\ wg = 0

Returned == mainPc \in {"save", "write", "exit", "fatal_logfile"}

\* C1: every entry put on fileChan is received by exactly one worker and gets
\* exactly one outcome on logChan: never two receives or two outcomes for an
\* entry, none for an entry not submitted, and once all workers have finished
\* each of the N entries has been received once and has one outcome, N in all.
C1_ExactlyOnce ==
    /\ \A n \in Range(NamePool) :
        /\ recvCount[n] <= 1
        /\ pushCount[n] <= recvCount[n]
        /\ n \notin Submitted => recvCount[n] = 0
    /\ WorkersFinished =>
        /\ \A n \in Names : recvCount[n] = 1 /\ pushCount[n] = 1
        /\ SumOver(Range(NamePool), pushCount) = Len(files)
        /\ fileChan = <<>>

C1_Witness ==
    /\ WorkersFinished
    /\ Len(files) = 3
    /\ workerCount = 2
    /\ Matching # {} /\ Matching # Names
    /\ SumOver(Range(NamePool), pushCount) = 3

\* C2: processFile calls the conversion for an entry if and only if the
\* entry's extension is ".heic" in any mix of cases; for any other entry it
\* returns an empty map, with no key for the entry's name, and the conversion
\* is never called.
C2_ConvertIffHeic ==
    /\ \A n \in Range(NamePool) : convCalls[n] > 0 => MatchesHeic(n)
    /\ \A w \in Workers : wpc[w] = "send" =>
        /\ MatchesHeic(wfile[w]) <=> convCalls[wfile[w]] = 1
        /\ MatchesHeic(wfile[w]) => DOMAIN wentry[w] = {wfile[w]}
        /\ ~MatchesHeic(wfile[w]) =>
              wentry[w] = EmptyMap /\ wfile[w] \notin DOMAIN wentry[w]

C2_Witness ==
    \E w1, w2 \in Workers :
        /\ wpc[w1] = "send" /\ wpc[w2] = "send"
        /\ wfile[w1] = NamePool[3] /\ convCalls[NamePool[3]] = 1
        /\ wfile[w2] = NamePool[5] /\ wentry[w2] = EmptyMap

\* C3: after processFiles has returned, logs holds exactly one line, under the
\* file's name, for every entry with the source extension, whether its
\* conversion succeeded or failed, and no per-file key for any other entry.
C3_OneLinePerSourceFile ==
    Returned =>
        /\ \A n \in Matching :
            /\ n \in DOMAIN logs
            /\ Len(logs[n]) = 1
            /\ logs[n][1].name = n
        /\ \A k \in (DOMAIN logs) \ {GeneralKey} : k \in Matching

C3_Witness ==
    /\ mainPc = "exit"
    /\ \E n \in Matching : convertFile(disk[n]).ok
    /\ \E n \in Matching : ~convertFile(disk[n]).ok
    /\ Matching # Names

\* what a report line says about the conversion
ShowsSuccess(line) ==
    line.text \in {<<" > Converted > jpegs/">>, <<"converted successfully">>}
ShowsError(line, msg) == line.text = <<"error details: ", msg>>

\* C4: the report line of a file reflects the outcome of its conversion: a
\* success line for a file that was converted, an "error details: <message>"
\* line with the worker's error for a file whose conversion failed.
C4_LineReflectsOutcome ==
    Returned =>
        \A n \in (DOMAIN logs) \ {GeneralKey} : \A i \in 1..Len(logs[n]) :
            IF convertFile(disk[n]).ok
            THEN ShowsSuccess(logs[n][i])
            ELSE ShowsError(logs[n][i], convertFile(disk[n]).err)

AggregationEnded == totalLogLines >= 0

\* C5: the file count of the general block never exceeds N and is the number
\* of entries with the source extension.
C5_FileCount ==
    AggregationEnded =>
        /\ totalLogLines <= Len(files)
        /\ totalLogLines = Cardinality(Matching)
        /\ Returned => logs[GeneralKey][1] = [general |-> "\n%v Files",
                                              count |-> Cardinality(Matching)]

C5_Witness ==
    /\ mainPc = "exit"
    /\ Len(files) = 3
    /\ Cardinality(Matching) = 2
    /\ logs[GeneralKey][1].count = 2

\* C6: when no entry produced a per-file line, aggregateLogs still completes
\* and writes the general entry.
C6_ZeroFilesCompletes ==
    (AggregationEnded /\ totalLogLines = 0) =>
        /\ mainPc # "panic"
        /\ GeneralKey \in DOMAIN logs

IsGeneralLine(line) == "general" \in DOMAIN line

Occurrences(line) == Cardinality({ i \in 1..Len(logFile) : logFile[i] = line })

\* C7: in logs.txt no general line is ever followed by a per-file line, whatever
\* order the map yields its keys in, and when saveLogsToFile returns every
\* line of logs, per-file or general, has been written exactly once.
C7_GeneralLast ==
    /\ \A i, j \in 1..Len(logFile) :
        (i < j /\ IsGeneralLine(logFile[i])) => IsGeneralLine(logFile[j])
    /\ mainPc = "exit" =>
        /\ \A k \in DOMAIN logs : \A i \in 1..Len(logs[k]) :
              /\ Occurrences(logs[k][i]) = 1
              /\ IsGeneralLine(logs[k][i]) <=> k = GeneralKey
        /\ Len(logFile) = SumOver(DOMAIN logs, [k \in DOMAIN logs |-> Len(logs[k])])
        /\ SubSeq(logFile, Len(logFile) - 4, Len(logFile)) = logs[GeneralKey]

C7_Witness ==
    /\ mainPc = "exit"
    /\ Cardinality(Matching) = 2
    /\ Len(logFile) = 7
    /\ IsGeneralLine(logFile[3]) /\ ~IsGeneralLine(logFile[2])

----------------------------------------------------------------------------
(* Properties of the splicing writer: checked under WriterSpec *)

Constructed == xpc \in {"encode", "done"}

Max0(x) == IF x > 0 THEN x ELSE 0

\* bytes of the sink that precede the encoder's
HeaderLen == 2 + (IF exif.present THEN 4 + Len(exif.data) ELSE 0)

\* C8: however the encoder's output is cut into Write calls, the sink begins
\* with FF D8 and, after what newWriterExif wrote, holds the encoder's bytes
\* from the third on: the first two encoder bytes, and only they, are dropped.
C8_SameBytesForEverySplit ==
    Constructed =>
        /\ SubSeq(sink, 1, 2) = <<255, 216>>
        /\ Len(sink) = HeaderLen + Max0(fed - 2)
        /\ SubSeq(sink, HeaderLen + 1, Len(sink)) = SubSeq(enc, 3, fed)
        /\ xpc = "done" =>
              SubSeq(sink, HeaderLen + 1, Len(sink)) = SubSeq(enc, 3, Len(enc))

\* the last Write call carried bytes on both sides of the discard boundary
C8_Witness ==
    /\ xpc = "done"
    /\ Len(enc) = 4
    /\ lastN = 3
    /\ enc[1] # 255
    /\ Len(sink) = HeaderLen + 2

\* the two length bytes of the segment, read big-endian
LengthField == sink[5] * 256 + sink[6]

SegmentAt3(L) ==
    /\ SubSeq(sink, 1, 2) = <<255, 216>>
    /\ SubSeq(sink, 3, 4) = <<255, 225>>
    /\ LengthField = L + 2
    /\ SubSeq(sink, 7, 6 + L) = exif.data
    /\ SubSeq(sink, 7 + L, Len(sink)) = SubSeq(enc, 3, fed)

\* C9 as stated: for a blob of any length L, the sink holds, right after the
\* start marker and before every encoder byte, FF E1, a length field equal to
\* L + 2, and the L blob bytes.
C9_SegmentAnyLength ==
    (Constructed /\ exif.present) => SegmentAt3(Len(exif.data))

\* C9 amended: the same for a blob of length L <= 65533, the longest whose
\* L + 2 fits the two length bytes.
C9_SegmentWithinFieldLimit ==
    (Constructed /\ exif.present /\ Len(exif.data) + 2 < FieldLimit) =>
        SegmentAt3(Len(exif.data))

\* a two-byte blob: FF D8, FF E1, 00 04, the blob, then the encoder's bytes
C9_Witness ==
    /\ xpc = "done"
    /\ exif.present
    /\ Len(exif.data) = 2
    /\ SubSeq(sink, 1, 6) = <<255, 216, 255, 225, 0, 4>>
    /\ SubSeq(sink, 7, 8) = exif.data
    /\ Len(enc) = 4
    /\ SubSeq(sink, 9, 10) = SubSeq(enc, 3, 4)

\* C10: with no blob, no segment is written: the sink is the start marker and
\* then the encoder's output without its first two bytes; with a blob too the
\* encoder's first two bytes, and no more, are missing from the sink.
C10_NoSegmentWithoutBlob ==
    Constructed =>
        /\ ~exif.present => sink = <<255, 216>> \o SubSeq(enc, 3, fed)
        /\ Len(sink) - HeaderLen = Max0(fed - 2)
        /\ bytesToSkip = Max0(2 - fed)

C10_Witness ==
    /\ xpc = "done"
    /\ ~exif.present
    /\ Len(enc) = 4
    /\ sink = <<255, 216, enc[3], enc[4]>>

----------------------------------------------------------------------------
(* Properties of the pool as a whole: checked under Spec *)

\* the outcome of an entry as its name and its own content fix it
ExpectedOutcome(n, content) ==
    IF MatchesHeic(n)
    THEN [k \in {n} |-> IF content = "valid"
                        THEN <<"converted successfully">>
                        ELSE <<"error details: ",
                               IF content = "mock" THEN "no exif" ELSE "not heif">>]
    ELSE EmptyMap

\* no other entry of the batch writes the same .jpg
StemIsOwn(n) == \A m \in Matching : JpegStem(m) = JpegStem(n) => m = n

C12_FailureStaysLocal ==
    /\ \A w \in Workers :
        /\ wpc[w] # "panic"
        /\ wpc[w] = "done" => (fileClosed /\ fileChan = <<>>)
        /\ (wpc[w] = "send" /\ MatchesHeic(wfile[w]) /\ disk[wfile[w]] # "valid") =>
              /\ DOMAIN wentry[w] = {wfile[w]}
              /\ wentry[w][wfile[w]][1] = "error details: "
    /\ \A n \in Names :
        (pushCount[n] = 0 /\ recvCount[n] = 1) =>
            \E w \in Workers : wfile[w] = n /\ wpc[w] \in {"process", "convert", "send"}
    /\ WorkersFinished => \A n \in Names : pushCount[n] = 1

\* one worker, a failing entry first, a good one after it, both answered
C12_Witness ==
    /\ WorkersFinished
    /\ workerCount = 1
    /\ Len(files) = 2
    /\ MatchesHeic(files[1]) /\ disk[files[1]] = "mock"
    /\ MatchesHeic(files[2]) /\ disk[files[2]] = "valid"
    /\ pushCount[files[1]] = 1 /\ pushCount[files[2]] = 1
    /\ JpegStem(files[2]) \in DOMAIN jpegs

\* C14: both channels have capacity N and no send waits for room: fileChan
\* holds fewer than N entries whenever the producer is about to submit, and
\* logChan fewer than N outcomes whenever a worker is about to send.
C14_NoSendBlocks ==
    /\ ChanCap = Len(files)
    /\ Len(fileChan) <= ChanCap
    /\ Len(logChan) <= ChanCap
    /\ (mainPc = "submit" /\ sent < Len(files)) => Len(fileChan) < ChanCap
    /\ \A w \in Workers : wpc[w] = "send" => Len(logChan) < ChanCap

\* the aggregator has not started, logChan holds all outcomes but the last
C14_Witness ==
    /\ mainPc = "submit"
    /\ Len(files) = 3
    /\ Len(logChan) = 2
    /\ \E w \in Workers : wpc[w] = "send"

\* main has exited through log.Fatalf
FatalAbort == mainPc \in {"fatal_getwd", "fatal_mkdir", "fatal_readdir", "fatal_logfile"}

\* C13: every fatal setup failure (directory unreadable, output directory not
\* creatable, log file not creatable) ends the run before any conversion work
\* begins: no entry has been handed to a worker and no conversion has been
\* called when main exits through log.Fatalf.
C13_FatalBeforeAnyConversion ==
    FatalAbort =>
        /\ ~PoolStarted
        /\ \A n \in Names : recvCount[n] = 0 /\ convCalls[n] = 0

----------------------------------------------------------------------------
(* Termination of the pool: checked under FairSpec *)

\* outcomes the aggregator has taken from logChan so far
Received == SumOver(Names, pushCount) - Len(logChan)

\* the range loop of aggregateLogs has ended
DrainEnded == mainPc \in {"save", "write", "exit", "panic", "fatal_logfile"}

AllWorkersDone == \A w \in Workers : wpc[w] = "done"

\* C15: under fair scheduling, for every N and W: fileChan is closed only
\* after all N submissions, every worker eventually leaves its loop, logChan
\* is closed only after the last worker has finished (no worker ever sends on
\* a closed channel), and the range loop of aggregateLogs eventually ends
\* with exactly N outcomes received.
C15_PipelineTerminates ==
    /\ [](fileClosed => sent = Len(files))
    /\ [](logClosed => (wg = 0 /\ AllWorkersDone))
    /\ [](\A w \in Workers : wpc[w] # "panic")
    /\ [](DrainEnded => (logClosed /\ Received = Len(files)))
    /\ (PoolStarted ~> (AllWorkersDone /\ DrainEnded))

C15_Witness ==
    /\ mainPc = "save"
    /\ Len(files) = MaxFiles
    /\ workerCount = MaxWorkers
    /\ AllWorkersDone
    /\ logClosed
    /\ Received = MaxFiles

----------------------------------------------------------------------------
(* Properties of convertHeicToJpg: checked under ConvSpec *)

\* the steps of convertHeicToJpg in the order of the source text
StepOrder == <<"open", "exif", "seek", "decode", "create", "writer", "encode">>

IsPrefix(s, t) == Len(s) <= Len(t) /\ s = SubSeq(t, 1, Len(s))

\* the steps after the given one
StepsAfter(step) ==
    { StepOrder[j] : j \in { i \in 1..Len(StepOrder) :
                               \E k \in 1..(i - 1) : StepOrder[k] = step } }

\* the steps other than the reposition run in order, and a failure of one of
\* them ends the function with that error and no later step
OrderedAndShortCircuit ==
    /\ IsPrefix(ran, StepOrder)
    /\ (xpc = "returned" /\ result # "nil") =>
          /\ ran # <<>>
          /\ result = ran[Len(ran)]
    /\ (xpc = "returned" /\ result = "nil") => ran = StepOrder

\* C16: the steps of convertHeicToJpg run in order open, extract, reposition,
\* decode, create, construct writer, encode; a failure at any step, the
\* reposition included, keeps every later step from running and is the error
\* returned.
C16_EveryFailureShortCircuits ==
    /\ OrderedAndShortCircuit
    /\ seekErr =>
          /\ Range(ran) \cap StepsAfter("seek") = {}
          /\ xpc = "returned" => result = "seek"

\* the stream the splicing writer produces for the image and its metadata
SplicedStream == (SOI \o ExifSegment(exif)) \o SubSeq(enc, 3, Len(enc))

\* C17: the output file is created or truncated before writing: after a
\* conversion that returned nil its content is exactly the spliced stream
\* (start marker, optional metadata segment, encoder body), with no byte of a
\* file that was at the path before, even a longer one.
C17_DestinationIsExactlyTheStream ==
    (xpc = "returned" /\ result = "nil") => DestFile = SplicedStream

----------------------------------------------------------------------------
(* Ownership of the report and of the outcome values: checked under Spec *)

\* the places that hold the outcome of entry n: workers and slots of logChan
HoldersOf(n) ==
    Cardinality({ w \in Workers : n \in DOMAIN wentry[w] }) +
    Cardinality({ i \in 1..Len(logChan) : n \in DOMAIN logChan[i] })

\* a step of the aggregator, which runs in main between close(fileChan) and the
\* return of aggregateLogs
AggregatorStep == mainPc = "aggregate" /\ wpc' = wpc /\ wentry' = wentry

\* C18: the report map starts empty and only steps of the aggregator change or
\* read it; a worker holds an outcome value only from its making to its send,
\* so every outcome is in one place at a time: with one worker, in one slot of
\* logChan, or taken by the aggregator.
C18_ReportOwnedByAggregator ==
    /\ logs = EmptyMap
    /\ [](\A w \in Workers : wpc[w] # "send" => wentry[w] = EmptyMap)
    /\ [](\A n \in Names : /\ HoldersOf(n) <= 1
                           /\ n \in DOMAIN logs => HoldersOf(n) = 0)
    /\ [][ /\ logs' # logs => AggregatorStep
           /\ \A w \in Workers :
                 wentry'[w] # wentry[w] => wpc[w] \in {"process", "convert", "send"}
         ]_vars

\* the aggregator has put one outcome into the report while a worker holds the next
C18_Witness ==
    /\ mainPc = "aggregate"
    /\ (DOMAIN logs) \cap Names # {}
    /\ \E w \in Workers : wpc[w] = "send" /\ wentry[w] # EmptyMap

----------------------------------------------------------------------------
(* The counter of writerSkipper: checked under WriterSpec *)

\* C19: every Write call on the splicing writer reports len(data), whether
\* the bytes were discarded, partly discarded or forwarded; bytesToSkip is 2
\* after newWriterExif, never increases, never goes below 0, and after writes
\* totalling T bytes is max(0, 2 - T).
C19_WriteReportsLenAndCounts ==
    /\ []((xpc = "encode" /\ fed = 0) => bytesToSkip = 2)
    /\ [](Constructed => (bytesToSkip >= 0 /\ bytesToSkip = Max0(2 - fed)))
    /\ [][ (xpc = "encode" /\ xpc' = "encode") =>
              /\ lastN' = fed' - fed
              /\ bytesToSkip' <= bytesToSkip
         ]_vars

\* a Write of one byte was discarded whole, one of three bytes then crossed
\* the boundary: both reported their full length
C19_Witness ==
    /\ xpc = "encode"
    /\ fed = 4
    /\ lastN = 3
    /\ bytesToSkip = 0
    /\ Len(sink) = HeaderLen + 2

----------------------------------------------------------------------------
(* Outcomes and open output files: checked under Spec *)

\* worker w has the output file of entry k open for writing
WritesDestOf(w, k) == "dst" \in wopen[w] /\ JpegStem(wfile[w]) = JpegStem(k)

\* an outcome is sent only when its conversion has returned and closed its files
SendAfterClose == \A w \in Workers : wpc[w] = "send" => wopen[w] = {}

\* C20: a worker sends the outcome of a file only after the conversion of that
\* file has returned and closed its source and output files; so when the
\* aggregator takes an outcome and looks up the sizes of its file, no worker
\* has that file's output open for writing.
C20_NoSizeLookupDuringWrite ==
    /\ SendAfterClose
    /\ (mainPc = "aggregate" /\ logChan # <<>>) =>
          \A k \in DOMAIN Head(logChan) :
              \A w \in Workers : ~WritesDestOf(w, k)

====
